---- MODULE Spec2Model ----
(***************************************************************************)
(* StorePosApiClient (examples/python/storepos_client.py): a client object *)
(* holding an optional access token and an HTTP session with default       *)
(* headers.  Its three operations login, get_products and create_product   *)
(* are synchronous; each is one action, with the backend's answer drawn    *)
(* from a small set of responses.                                          *)
(***************************************************************************)
EXTENDS Integers, Sequences, FiniteSets, TLC

VARIABLES
    access_token,     \* self.access_token
    headers,          \* self.session.headers, restricted to the keys the client sets
    last,             \* the most recent completed call: request(s) sent, response, outcome
    nreq,             \* number of HTTP requests handed to the transport so far
    jsonErrCaught,    \* does the installed requests raise a RequestException from response.json()?
    everLoggedIn,     \* history: some login call has returned True
    lastToken         \* history: the token of the latest login that returned True

vars == <<access_token, headers, last, nreq, jsonErrCaught, everLoggedIn, lastToken>>

----------------------------------------------------------------------------
(* Bounds *)

MaxReq == 5           \* cap on the number of requests sent in one behaviour
MaxProducts == 2      \* longest product list the backend returns

----------------------------------------------------------------------------
(* Python values *)

PyNone == [t |-> "NoneType", v |-> ""]
PyStr(s) == [t |-> "str", v |-> s]

\* bool(x) for x None or a str
PyTruthy(x) == x.t = "str" /\ x.v # ""

\* format(x) as used by an f-string replacement field
PyFormat(x) == IF x.t = "NoneType" THEN "None" ELSE x.v

----------------------------------------------------------------------------
(* Inputs *)

Tokens == {PyNone, PyStr(""), PyStr("tokA"), PyStr("tokB")}

Credentials == {[usernameOrEmail |-> "admin@storepos.com", password |-> "Admin123!"],
                [usernameOrEmail |-> "guest", password |-> "wrong"]}

Products == {[sku |-> "PYTHON-001", stockQty |-> 50],
             [sku |-> "PYTHON-002", stockQty |-> 0]}

ProductIds == 1..2

StatusCodes == {200, 201, 204, 401, 500}

TransportErrors == {"ConnectionError", "Timeout"}

RECURSIVE SeqsUpTo(_, _)
SeqsUpTo(S, n) ==
    IF n = 0 THEN {<<>>}
    ELSE LET shorter == SeqsUpTo(S, n - 1)
         IN shorter \cup {Append(s, e) : s \in {q \in shorter : Len(q) = n - 1}, e \in S}

\* A response body: text that response.json() can parse (valid) to the value json,
\* or text it cannot parse.
InvalidBody == [valid |-> FALSE, json |-> <<>>]

LoginBodies ==
    {InvalidBody} \cup
    {[valid |-> TRUE, json |-> [success |-> s, hasData |-> TRUE, accessToken |-> a]] :
        s \in {"true", "false", "missing"}, a \in Tokens} \cup
    {[valid |-> TRUE, json |-> [success |-> s, hasData |-> FALSE, accessToken |-> PyNone]] :
        s \in {"true", "false", "missing"}}

ProductListBodies ==
    {InvalidBody} \cup {[valid |-> TRUE, json |-> l] : l \in SeqsUpTo(Products, MaxProducts)}

CreatedBodies ==
    {InvalidBody} \cup
    {[valid |-> TRUE, json |-> [id |-> i, data |-> p]] : i \in ProductIds, p \in Products}

\* What the transport gives back for one request: an exception or a response.
Responses(bodies) ==
    {[err |-> e, status_code |-> 0, body |-> InvalidBody] : e \in TransportErrors} \cup
    {[err |-> "", status_code |-> s, body |-> b] : s \in StatusCodes, b \in bodies}

----------------------------------------------------------------------------
(* requests.Session *)

NoHeaders == [k \in {} |-> ""]

\* dict.update({k: v})
HeadersUpdate(h, k, v) == (k :> v) @@ h

\* the headers of a prepared request: per-request headers over the session defaults
MergeHeaders(sessionHeaders, requestHeaders) == requestHeaders @@ sessionHeaders

Request(method, path, sessionHeaders, requestHeaders, json) ==
    [method |-> method, path |-> path,
     headers |-> MergeHeaders(sessionHeaders, requestHeaders), json |-> json]

\* variant: a request that met a transport failure or a 5xx answer is sent again
TransmitRetry(req, resp) ==
    IF resp.err # "" \/ resp.status_code >= 500 THEN <<req, req>> ELSE <<req>>

\* session.post / session.get: the requests put on the wire for one call
Transmit(req, resp) == <<req>>

\* response.json(): a value, or an exception that the except clause catches or not
JsonRaises(resp) == ~resp.body.valid

----------------------------------------------------------------------------
(* Outcomes of a call *)

Returned(kind, val) == [raised |-> "", ret |-> kind, val |-> val]
Raised(exc) == [raised |-> exc, ret |-> "", val |-> <<>>]

\* variant: the guard inverted, `if self.access_token`
NotAuthenticatedInverted(tok) == PyTruthy(tok)

\* `if not self.access_token`
NotAuthenticated(tok) == ~PyTruthy(tok)

\* variant: headers.setdefault, an Authorization header already present is kept
LoginStoreSetDefault(hdrs, result) ==
    [access_token |-> result.accessToken,
     headers |-> IF "Authorization" \in DOMAIN hdrs THEN hdrs
                 ELSE HeadersUpdate(hdrs, "Authorization",
                                    "Bearer " \o PyFormat(result.accessToken))]

\* login, lines 28-32: the state stored on a successful login
LoginStore(hdrs, result) ==
    [access_token |-> result.accessToken,
     headers |-> HeadersUpdate(hdrs, "Authorization",
                               "Bearer " \o PyFormat(result.accessToken))]

Unchanged(tok, hdrs) == [access_token |-> tok, headers |-> hdrs]

\* variant: the token is stored before the success flag is looked at
LoginOutcomeStoresFirst(resp, caught, tok, hdrs) ==
    IF resp.err # "" THEN
        [out |-> Returned("False", <<>>), st |-> Unchanged(tok, hdrs)]
    ELSE IF resp.status_code = 200 THEN
        IF JsonRaises(resp) THEN
            [out |-> IF caught THEN Returned("False", <<>>) ELSE Raised("JSONDecodeError"),
             st |-> Unchanged(tok, hdrs)]
        ELSE LET result == resp.body.json IN
            IF ~result.hasData THEN
                [out |-> Raised("KeyError"), st |-> Unchanged(tok, hdrs)]
            ELSE
                [out |-> Returned(IF result.success = "true" THEN "True" ELSE "False", <<>>),
                 st |-> LoginStore(hdrs, result)]
    ELSE
        [out |-> Returned("False", <<>>), st |-> Unchanged(tok, hdrs)]

\* variant: every 2xx status is taken for a successful answer
LoginOutcomeAny2xx(resp, caught, tok, hdrs) ==
    IF resp.err # "" THEN
        [out |-> Returned("False", <<>>), st |-> Unchanged(tok, hdrs)]
    ELSE IF resp.status_code >= 200 /\ resp.status_code < 300 THEN
        IF JsonRaises(resp) THEN
            [out |-> IF caught THEN Returned("False", <<>>) ELSE Raised("JSONDecodeError"),
             st |-> Unchanged(tok, hdrs)]
        ELSE LET result == resp.body.json IN
            IF result.success = "true" THEN
                IF ~result.hasData THEN
                    [out |-> Raised("KeyError"), st |-> Unchanged(tok, hdrs)]
                ELSE
                    [out |-> Returned("True", <<>>),
                     st |-> LoginStore(hdrs, result)]
            ELSE
                [out |-> Returned("False", <<>>), st |-> Unchanged(tok, hdrs)]
    ELSE
        [out |-> Returned("False", <<>>), st |-> Unchanged(tok, hdrs)]

\* variant: a failed login logs the client out
LoginOutcomeClearsOnFailure(resp, caught, tok, hdrs) ==
    IF resp.err # "" THEN
        [out |-> Returned("False", <<>>), st |-> Unchanged(tok, hdrs)]
    ELSE IF resp.status_code = 200 THEN
        IF JsonRaises(resp) THEN
            [out |-> IF caught THEN Returned("False", <<>>) ELSE Raised("JSONDecodeError"),
             st |-> Unchanged(tok, hdrs)]
        ELSE LET result == resp.body.json IN
            IF result.success = "true" THEN
                IF ~result.hasData THEN
                    [out |-> Raised("KeyError"), st |-> Unchanged(tok, hdrs)]
                ELSE
                    [out |-> Returned("True", <<>>),
                     st |-> LoginStore(hdrs, result)]
            ELSE
                [out |-> Returned("False", <<>>), st |-> Unchanged(PyNone, NoHeaders)]
    ELSE
        [out |-> Returned("False", <<>>), st |-> Unchanged(PyNone, NoHeaders)]

\* login, lines 18-44: outcome and stored state after the response resp
LoginOutcome(resp, caught, tok, hdrs) ==
    IF resp.err # "" THEN
        [out |-> Returned("False", <<>>), st |-> Unchanged(tok, hdrs)]
    ELSE IF resp.status_code = 200 THEN
        IF JsonRaises(resp) THEN
            [out |-> IF caught THEN Returned("False", <<>>) ELSE Raised("JSONDecodeError"),
             st |-> Unchanged(tok, hdrs)]
        ELSE LET result == resp.body.json IN
            IF result.success = "true" THEN
                IF ~result.hasData THEN
                    [out |-> Raised("KeyError"), st |-> Unchanged(tok, hdrs)]
                ELSE
                    [out |-> Returned("True", <<>>), st |-> LoginStore(hdrs, result)]
            ELSE
                [out |-> Returned("False", <<>>), st |-> Unchanged(tok, hdrs)]
    ELSE
        [out |-> Returned("False", <<>>), st |-> Unchanged(tok, hdrs)]

\* variant: an empty list is treated like a failure, `return products or None`
GetProductsOutcomeTruthy(resp, caught) ==
    IF resp.err # "" THEN Returned("None", <<>>)
    ELSE IF resp.status_code = 200 THEN
        IF JsonRaises(resp)
        THEN (IF caught THEN Returned("None", <<>>) ELSE Raised("JSONDecodeError"))
        ELSE IF Len(resp.body.json) = 0 THEN Returned("None", <<>>)
        ELSE Returned("json", resp.body.json)
    ELSE Returned("None", <<>>)

\* get_products, lines 51-62
GetProductsOutcome(resp, caught) ==
    IF resp.err # "" THEN Returned("None", <<>>)
    ELSE IF resp.status_code = 200 THEN
        IF JsonRaises(resp)
        THEN (IF caught THEN Returned("None", <<>>) ELSE Raised("JSONDecodeError"))
        ELSE Returned("json", resp.body.json)
    ELSE Returned("None", <<>>)

\* variant: 200 is accepted as well as 201
CreateProductOutcomeOk(resp, caught) ==
    IF resp.err # "" THEN Returned("None", <<>>)
    ELSE IF resp.status_code \in {200, 201} THEN
        IF JsonRaises(resp)
        THEN (IF caught THEN Returned("None", <<>>) ELSE Raised("JSONDecodeError"))
        ELSE Returned("json", resp.body.json)
    ELSE Returned("None", <<>>)

\* create_product, lines 69-83
CreateProductOutcome(resp, caught) ==
    IF resp.err # "" THEN Returned("None", <<>>)
    ELSE IF resp.status_code = 201 THEN
        IF JsonRaises(resp)
        THEN (IF caught THEN Returned("None", <<>>) ELSE Raised("JSONDecodeError"))
        ELSE Returned("json", resp.body.json)
    ELSE Returned("None", <<>>)

NoResponse == [err |-> "", status_code |-> 0, body |-> InvalidBody]

----------------------------------------------------------------------------
(* The state machine *)

Init ==
    /\ access_token = PyNone
    /\ headers = NoHeaders
    /\ last = [op |-> "__init__", sent |-> <<>>, resp |-> NoResponse,
               out |-> Returned("None", <<>>)]
    /\ nreq = 0
    /\ jsonErrCaught \in BOOLEAN
    /\ everLoggedIn = FALSE
    /\ lastToken = PyNone

Login(cred, resp) ==
    LET req == Request("POST", "/api/auth/login", headers,
                       [k \in {"Content-Type"} |-> "application/json"], cred)
        sent == Transmit(req, resp)
        o == LoginOutcome(resp, jsonErrCaught, access_token, headers)
    IN /\ nreq + Len(sent) <= MaxReq
       /\ nreq' = nreq + Len(sent)
       /\ access_token' = o.st.access_token
       /\ headers' = o.st.headers
       /\ last' = [op |-> "login", sent |-> sent, resp |-> resp, out |-> o.out]
       /\ everLoggedIn' = (everLoggedIn \/ o.out.ret = "True")
       /\ lastToken' = IF o.out.ret = "True" THEN resp.body.json.accessToken ELSE lastToken
       /\ UNCHANGED jsonErrCaught

GetProducts(resp) ==
    IF NotAuthenticated(access_token) THEN
        /\ last' = [op |-> "get_products", sent |-> <<>>, resp |-> NoResponse,
                    out |-> Raised("NotAuthenticated")]
        /\ UNCHANGED <<access_token, headers, nreq, jsonErrCaught, everLoggedIn, lastToken>>
    ELSE
        LET req == Request("GET", "/api/products", headers, NoHeaders, <<>>)
            sent == Transmit(req, resp)
        IN /\ nreq + Len(sent) <= MaxReq
           /\ nreq' = nreq + Len(sent)
           /\ last' = [op |-> "get_products", sent |-> sent, resp |-> resp,
                       out |-> GetProductsOutcome(resp, jsonErrCaught)]
           /\ UNCHANGED <<access_token, headers, jsonErrCaught, everLoggedIn, lastToken>>

CreateProduct(product_data, resp) ==
    IF NotAuthenticated(access_token) THEN
        /\ last' = [op |-> "create_product", sent |-> <<>>, resp |-> NoResponse,
                    out |-> Raised("NotAuthenticated")]
        /\ UNCHANGED <<access_token, headers, nreq, jsonErrCaught, everLoggedIn, lastToken>>
    ELSE
        LET req == Request("POST", "/api/products", headers, NoHeaders, product_data)
            sent == Transmit(req, resp)
        IN /\ nreq + Len(sent) <= MaxReq
           /\ nreq' = nreq + Len(sent)
           /\ last' = [op |-> "create_product", sent |-> sent, resp |-> resp,
                       out |-> CreateProductOutcome(resp, jsonErrCaught)]
           /\ UNCHANGED <<access_token, headers, jsonErrCaught, everLoggedIn, lastToken>>

Next ==
    \/ \E cred \in Credentials, resp \in Responses(LoginBodies) : Login(cred, resp)
    \/ \E resp \in Responses(ProductListBodies) : GetProducts(resp)
    \/ \E p \in Products, resp \in Responses(CreatedBodies) : CreateProduct(p, resp)

Spec == Init /\ [][Next]_vars

TypeOK ==
    /\ access_token \in Tokens
    /\ DOMAIN headers \subseteq {"Authorization"}
    /\ nreq \in 0..MaxReq
    /\ last.op \in {"__init__", "login", "get_products", "create_product"}

----------------------------------------------------------------------------
(* Properties *)

\* C1: a login answered with HTTP 200, success true and token t returns True,
\* stores t as the access token and sets the Authorization header to
\* 'Bearer t'; every request sent after a successful login (get_products,
\* create_product and login requests alike) carries 'Bearer t' for the token
\* t of the latest successful login before it.
C1_BearerOfLatestLogin ==
    [][ /\ ( /\ last'.op = "login"
             /\ last'.resp.err = ""
             /\ last'.resp.status_code = 200
             /\ last'.resp.body.valid
             /\ last'.resp.body.json.success = "true"
             /\ last'.resp.body.json.hasData )
           => /\ last'.out.raised = ""
              /\ last'.out.ret = "True"
              /\ access_token' = last'.resp.body.json.accessToken
              /\ "Authorization" \in DOMAIN headers'
              /\ headers'["Authorization"]
                    = "Bearer " \o PyFormat(last'.resp.body.json.accessToken)
        /\ everLoggedIn
           => \A i \in 1..Len(last'.sent) :
                 /\ "Authorization" \in DOMAIN last'.sent[i].headers
                 /\ last'.sent[i].headers["Authorization"]
                       = "Bearer " \o PyFormat(lastToken)
      ]_vars

\* C1 witness: a second successful login, whose request still carried
\* 'Bearer tokA', has replaced the token by tokB.
C1_Witness ==
    /\ last.op = "login"
    /\ last.out.ret = "True"
    /\ Len(last.sent) = 1
    /\ "Authorization" \in DOMAIN last.sent[1].headers
    /\ last.sent[1].headers["Authorization"] = "Bearer tokA"
    /\ access_token = PyStr("tokB")
    /\ headers["Authorization"] = "Bearer tokB"

\* C2: as long as no login has returned True, get_products and create_product
\* raise the unauthenticated-usage error and send no HTTP request.
C2_UnauthenticatedRaises ==
    [][ (~everLoggedIn /\ last'.op \in {"get_products", "create_product"})
           => /\ last'.out.raised = "NotAuthenticated"
              /\ Len(last'.sent) = 0
              /\ nreq' = nreq
      ]_vars

\* C2 witness: create_product raised after two login requests that failed.
C2_Witness ==
    /\ last.op = "create_product"
    /\ last.out.raised = "NotAuthenticated"
    /\ ~everLoggedIn
    /\ nreq >= 2

\* C3: a login answered with HTTP 200 and a success flag false or missing
\* returns False and stores nothing: access token and session headers are
\* what they were before the call.
C3_FailureFlagStoresNothing ==
    [][ ( /\ last'.op = "login"
          /\ last'.resp.err = ""
          /\ last'.resp.status_code = 200
          /\ last'.resp.body.valid
          /\ last'.resp.body.json.success # "true" )
           => /\ last'.out.raised = ""
              /\ last'.out.ret = "False"
              /\ access_token' = access_token
              /\ headers' = headers
      ]_vars

\* C3 witness: the answer had success false and carried tokA; nothing is stored.
C3_Witness ==
    /\ last.op = "login"
    /\ last.resp.status_code = 200
    /\ last.resp.body.valid
    /\ last.resp.body.json.success = "false"
    /\ last.resp.body.json.hasData
    /\ last.resp.body.json.accessToken = PyStr("tokA")
    /\ last.out.ret = "False"
    /\ access_token = PyNone
    /\ headers = NoHeaders

\* C4: a login answered with any status other than 200, whatever the body, or
\* ended by a transport failure, returns False and does not raise.
C4_Non200ReturnsFalse ==
    (last.op = "login" /\ (last.resp.err # "" \/ last.resp.status_code # 200))
        => (last.out.raised = "" /\ last.out.ret = "False")

\* C4 witness: status 201 with success true and a token, login returned False.
C4_Witness ==
    /\ last.op = "login"
    /\ last.resp.err = ""
    /\ last.resp.status_code = 201
    /\ last.resp.body.valid
    /\ last.resp.body.json.success = "true"
    /\ last.resp.body.json.hasData
    /\ last.resp.body.json.accessToken = PyStr("tokA")
    /\ last.out.ret = "False"
    /\ access_token = PyNone

\* C5: on an authenticated client get_products returns the parsed body of a
\* 200 answer as it is (an empty list as an empty list), and None, without
\* raising, for every other status and every transport failure.
C5_GetProductsResult ==
    (last.op = "get_products" /\ last.out.raised # "NotAuthenticated")
        => /\ (last.resp.err = "" /\ last.resp.status_code = 200 /\ last.resp.body.valid)
                => /\ last.out.raised = ""
                   /\ last.out.ret = "json"
                   /\ last.out.val = last.resp.body.json
           /\ (last.resp.err # "" \/ last.resp.status_code # 200)
                => (last.out.raised = "" /\ last.out.ret = "None")

\* C5 witness: a 200 answer with an empty list came back as the empty list.
C5_Witness ==
    /\ last.op = "get_products"
    /\ last.resp.err = ""
    /\ last.resp.status_code = 200
    /\ last.resp.body.valid
    /\ Len(last.resp.body.json) = 0
    /\ last.out.ret = "json"
    /\ Len(last.out.val) = 0

\* C6: on an authenticated client create_product returns the parsed body
\* exactly when the status is 201, and None, without raising, for every other
\* status and every transport failure.
C6_CreateProductResult ==
    (last.op = "create_product" /\ last.out.raised # "NotAuthenticated")
        => /\ (last.resp.err = "" /\ last.resp.status_code = 201 /\ last.resp.body.valid)
                => /\ last.out.raised = ""
                   /\ last.out.ret = "json"
                   /\ last.out.val = last.resp.body.json
           /\ last.out.ret = "json"
                => (last.resp.err = "" /\ last.resp.status_code = 201)
           /\ (last.resp.err # "" \/ last.resp.status_code # 201)
                => (last.out.raised = "" /\ last.out.ret = "None")

\* C6 witness: a 200 answer with a well-formed record gave None.
C6_Witness ==
    /\ last.op = "create_product"
    /\ last.resp.err = ""
    /\ last.resp.status_code = 200
    /\ last.resp.body.valid
    /\ last.out.raised = ""
    /\ last.out.ret = "None"

\* C7: no retries.  A login call sends exactly one request; a get_products or
\* create_product call sends none when it raises the unauthenticated-usage
\* error (which it does exactly when the stored token fails the guard) and
\* exactly one otherwise, whatever the answer.
C7_OneRequestPerCall ==
    [][ /\ last'.op = "login" => (Len(last'.sent) = 1 /\ nreq' = nreq + 1)
        /\ last'.op \in {"get_products", "create_product"}
             => /\ (last'.out.raised = "NotAuthenticated") <=> ~PyTruthy(access_token)
                /\ Len(last'.sent) = (IF last'.out.raised = "NotAuthenticated" THEN 0 ELSE 1)
                /\ nreq' = nreq + Len(last'.sent)
      ]_vars

\* C7 witness: get_products met a 500 answer after sending its one request.
C7_Witness ==
    /\ last.op = "get_products"
    /\ last.resp.err = ""
    /\ last.resp.status_code = 500
    /\ Len(last.sent) = 1
    /\ last.out.ret = "None"
    /\ nreq = 2

\* C8: a login that returns False, and every get_products and create_product
\* call, leave access token and session headers as they were; so after a
\* successful login with token t, failed logins leave the client holding t
\* and the header 'Bearer t', and the guard of get_products/create_product
\* decides as it did before.
C8_FailedLoginFrame ==
    [][ /\ (last'.op = "login" /\ last'.out.ret = "False")
           => /\ access_token' = access_token
              /\ headers' = headers
              /\ everLoggedIn
                   => /\ access_token' = lastToken
                      /\ "Authorization" \in DOMAIN headers'
                      /\ headers'["Authorization"] = "Bearer " \o PyFormat(lastToken)
        /\ last'.op \in {"get_products", "create_product"}
           => /\ access_token' = access_token
              /\ headers' = headers
      ]_vars

\* C8 witness: logged in with tokA, then a login answered 401; tokA is kept.
C8_Witness ==
    /\ everLoggedIn
    /\ last.op = "login"
    /\ last.resp.err = ""
    /\ last.resp.status_code = 401
    /\ last.out.ret = "False"
    /\ access_token = PyStr("tokA")
    /\ "Authorization" \in DOMAIN headers
    /\ headers["Authorization"] = "Bearer tokA"

\* C9: once a login has returned True, no get_products or create_product call
\* raises the unauthenticated-usage error, whatever token came with the
\* success flag.
C9_NoUnauthenticatedAfterLogin ==
    (everLoggedIn /\ last.op \in {"get_products", "create_product"})
        => last.out.raised # "NotAuthenticated"

\* C10: the session has an Authorization header exactly when the access token
\* is not None, the header is then 'Bearer ' followed by the token, and a
\* token that is set never becomes None again.
C10_TokenHeaderConsistent ==
    [][ /\ ("Authorization" \in DOMAIN headers') <=> (access_token' # PyNone)
        /\ (access_token' # PyNone)
             => headers'["Authorization"] = "Bearer " \o PyFormat(access_token')
        /\ (access_token # PyNone) => (access_token' # PyNone)
      ]_vars

====
